---- MODULE Spec2Model ----
(***************************************************************************)
(* A model of s3check.py: the conversion of S3 domain strings to s3://     *)
(* URLs, the per-URL access check, the thread-pool batch of checks and     *)
(* main's join of the batch results with the loaded input lines.           *)
(*                                                                         *)
(* Python strings are modelled as sequences of one-character strings, so   *)
(* that strip, startswith, "in" and split are computed as Python computes  *)
(* them.                                                                   *)
(***************************************************************************)
EXTENDS Integers, Sequences, FiniteSets, TLC

VARIABLES
    lines,        \* the input file: a sequence of lines (without the newline)
    max_workers,  \* --workers
    pc,           \* main's position: "load", "submit", "collect", "done", "failed"
    url_data,     \* load_urls_from_file's records
    s3_urls,      \* main's list of URLs handed to check_multiple_urls
    futures,      \* future_to_url: one future per submitted URL, in submission order
    calls,        \* per future, the storage-client calls it has issued
    results,      \* check_multiple_urls's results list
    collected,    \* the futures as_completed has yielded so far
    report        \* main's results_with_original

vars == <<lines, max_workers, pc, url_data, s3_urls, futures, calls, results,
          collected, report>>

-----------------------------------------------------------------------------
(* Bounds of the model *)

\* the longest input line, counted in fragments (see Fragments)
MaxFrags == 4
\* the most lines of an input file in a batch
MaxLines == 2
\* the largest --workers value
MaxWorkers == 2

-----------------------------------------------------------------------------
(* Python strings *)

HTTPS == <<"h","t","t","p","s",":","/","/">>
HTTP == <<"h","t","t","p",":","/","/">>
S3SCHEME == <<"s","3",":","/","/">>
S3DOT == <<"s","3",".">>
S3DASH == <<"s","3","-">>
DOTS3DOT == <<".","s","3",".">>
DOTS3DASH == <<".","s","3","-">>
S3AWS == <<"s","3",".","a","m","a","z","o","n","a","w","s",".","c","o","m">>
AWS == <<"a","m","a","z","o","n","a","w","s",".","c","o","m">>
SLASH == <<"/">>

\* the characters str.strip() removes, as far as the model's alphabet has them
Whitespace == {" "}

\* Python's None (convert_domain_to_s3_url falling off its end); no string equals it
None == <<"None">>

startswith(s, p) == Len(s) >= Len(p) /\ SubSeq(s, 1, Len(p)) = p

\* the index of the first occurrence of p in s, 0 when there is none (str.find + 1)
find(s, p) ==
    LET hits == {i \in 1..(Len(s) - Len(p) + 1) : SubSeq(s, i, i + Len(p) - 1) = p}
    IN IF hits = {} THEN 0 ELSE CHOOSE i \in hits : \A j \in hits : i <= j

\* p in s
contains(s, p) == find(s, p) # 0

RECURSIVE lstrip(_)
lstrip(s) == IF s # <<>> /\ Head(s) \in Whitespace THEN lstrip(Tail(s)) ELSE s

RECURSIVE rstrip(_)
rstrip(s) ==
    IF s # <<>> /\ s[Len(s)] \in Whitespace THEN rstrip(SubSeq(s, 1, Len(s) - 1)) ELSE s

strip(s) == rstrip(lstrip(s))

\* s.split(sep, maxsplit): a sequence of at most maxsplit + 1 parts
RECURSIVE split(_, _, _)
split(s, sep, maxsplit) ==
    LET i == find(s, sep)
    IN IF maxsplit = 0 \/ i = 0
       THEN <<s>>
       ELSE <<SubSeq(s, 1, i - 1)>> \o split(SubSeq(s, i + Len(sep), Len(s)), sep, maxsplit - 1)

-----------------------------------------------------------------------------
(* convert_domain_to_s3_url and parse_s3_url *)

\* f"s3://{bucket}/{path}" if path else f"s3://{bucket}"
s3_url_of(bucket, path) ==
    IF path # <<>> THEN S3SCHEME \o bucket \o SLASH \o path ELSE S3SCHEME \o bucket

\* the protocol removal at the head of convert_domain_to_s3_url
remove_protocol(d) ==
    IF startswith(d, HTTPS) THEN SubSeq(d, 9, Len(d))
    ELSE IF startswith(d, HTTP) THEN SubSeq(d, 8, Len(d))
    ELSE d

\* the branch for bucket-name.s3.region.amazonaws.com/path
virtual_hosted(domain) ==
    LET parts == split(domain, SLASH, 1)
        host == parts[1]
        path == IF Len(parts) > 1 THEN parts[2] ELSE <<>>
        bucket == IF contains(host, DOTS3DOT) THEN split(host, DOTS3DOT, -1)[1]
                  ELSE IF contains(host, DOTS3DASH) THEN split(host, DOTS3DASH, -1)[1]
                  ELSE host
    IN s3_url_of(bucket, path)

\* the two branches for s3.region.amazonaws.com/bucket-name/path; None without a "/"
path_style(domain) ==
    LET parts == split(domain, SLASH, 2)
    IN IF Len(parts) >= 2
       THEN s3_url_of(parts[2], IF Len(parts) > 2 THEN parts[3] ELSE <<>>)
       ELSE None

\* the last branch: a bare bucket name, with or without a path
bare_bucket(domain) ==
    IF contains(domain, SLASH)
    THEN LET parts == split(domain, SLASH, 1)
         IN S3SCHEME \o parts[1] \o SLASH \o parts[2]
    ELSE S3SCHEME \o domain

\* which pattern the virtual-hosted branch is entered on
is_virtual_hosted(domain) == contains(domain, DOTS3DOT) \/ contains(domain, DOTS3DASH)

convert_domain_to_s3_url(raw) ==
    LET domain == remove_protocol(strip(raw))
    IN IF is_virtual_hosted(domain) THEN virtual_hosted(domain)
       ELSE IF startswith(domain, S3DOT) \/ startswith(domain, S3DASH) THEN path_style(domain)
       ELSE IF contains(domain, S3AWS) THEN path_style(domain)
       ELSE IF startswith(domain, S3SCHEME) THEN domain
       ELSE bare_bucket(domain)

\* parse_s3_url: raised names the exception it ends with, "" when it returns
parse_s3_url(s3_url) ==
    IF s3_url = None
    THEN [raised |-> "AttributeError", bucket |-> <<>>, key |-> <<>>]
    ELSE IF ~startswith(s3_url, S3SCHEME)
    THEN [raised |-> "ValueError", bucket |-> <<>>, key |-> <<>>]
    ELSE LET parts == split(SubSeq(s3_url, 6, Len(s3_url)), SLASH, 1)
         IN [raised |-> "", bucket |-> parts[1],
             key |-> IF Len(parts) > 1 THEN parts[2] ELSE <<>>]

-----------------------------------------------------------------------------
(* The storage client and the access checks *)

\* e.response['Error']['Code'] of a ClientError; "InternalError" stands for any other code
ErrorCodes == {"NoSuchBucket", "NoSuchKey", "AccessDenied", "Forbidden", "InternalError"}

\* what a call of the boto3 client ends with: a return, a ClientError with a code,
\* or another exception (code is then its message)
Responses ==
    {[kind |-> "ok", code |-> ""]}
    \cup {[kind |-> "ClientError", code |-> c] : c \in ErrorCodes}
    \cup {[kind |-> "Exception", code |-> "Could not connect to the endpoint URL"]}

\* a message: a fixed text followed by an interpolated value (<<>> when there is none)
Msg(text, arg) == [text |-> text, arg |-> arg]

\* mutant: the AccessDenied branch returns True
check_bucket_access_denied_true(r) ==
    IF r.kind = "ok"
    THEN [raised |-> "", accessible |-> TRUE, message |-> Msg("Bucket accessible", <<>>)]
    ELSE IF r.kind = "ClientError"
    THEN [raised |-> "", accessible |-> r.code = "AccessDenied",
          message |-> IF r.code = "NoSuchBucket" THEN Msg("Bucket does not exist", <<>>)
                      ELSE IF r.code = "AccessDenied" THEN Msg("Access denied to bucket", <<>>)
                      ELSE IF r.code = "Forbidden" THEN Msg("Forbidden - no permissions", <<>>)
                      ELSE Msg("Error: ", <<r.code>>)]
    ELSE [raised |-> r.code, accessible |-> FALSE, message |-> Msg("", <<>>)]

\* check_bucket_access, given what get_bucket_location ended with; raised is the
\* message of an exception that is no ClientError and so leaves the function
check_bucket_access(r) ==
    IF r.kind = "ok"
    THEN [raised |-> "", accessible |-> TRUE, message |-> Msg("Bucket accessible", <<>>)]
    ELSE IF r.kind = "ClientError"
    THEN [raised |-> "", accessible |-> FALSE,
          message |-> IF r.code = "NoSuchBucket" THEN Msg("Bucket does not exist", <<>>)
                      ELSE IF r.code = "AccessDenied" THEN Msg("Access denied to bucket", <<>>)
                      ELSE IF r.code = "Forbidden" THEN Msg("Forbidden - no permissions", <<>>)
                      ELSE Msg("Error: ", <<r.code>>)]
    ELSE [raised |-> r.code, accessible |-> FALSE, message |-> Msg("", <<>>)]

\* check_object_access, given what head_object ended with
check_object_access(r) ==
    IF r.kind = "ok"
    THEN [raised |-> "", accessible |-> TRUE, message |-> Msg("Object accessible", <<>>)]
    ELSE IF r.kind = "ClientError"
    THEN [raised |-> "", accessible |-> FALSE,
          message |-> IF r.code = "NoSuchKey" THEN Msg("Object does not exist", <<>>)
                      ELSE IF r.code = "NoSuchBucket" THEN Msg("Bucket does not exist", <<>>)
                      ELSE IF r.code \in {"AccessDenied", "Forbidden"}
                      THEN Msg("Access denied to object", <<>>)
                      ELSE Msg("Error: ", <<r.code>>)]
    ELSE [raised |-> r.code, accessible |-> FALSE, message |-> Msg("", <<>>)]

\* the dictionary check_s3_url_access returns
Outcome(url, bucket, key, accessible, message, type) ==
    [url |-> url, bucket |-> bucket, key |-> key, accessible |-> accessible,
     message |-> message, type |-> type]

\* the except ValueError handler
invalid_outcome(s3_url) ==
    Outcome(s3_url, <<>>, <<>>, FALSE, Msg("Invalid S3 URL format: ", s3_url), "invalid")

\* a call that ends with an exception instead of a dictionary: future.result()
\* raises it again in check_multiple_urls
Raise(text) == Outcome(None, <<>>, <<>>, FALSE, Msg(text, <<>>), "raise")

\* mutant: no except Exception handler, the exception leaves check_s3_url_access
error_outcome_unhandled(s3_url, text) == Raise(text)

\* the except Exception handler; text is str(e)
error_outcome(s3_url, text) ==
    Outcome(s3_url, <<>>, <<>>, FALSE, Msg("Unexpected error: ", <<text>>), "error")

\* mutant: the bucket check whatever the key
is_bucket_check_always(key) == TRUE

\* if not key: the bucket check, else the object check
is_bucket_check(key) == key = <<>>

\* the client call check_s3_url_access blocks in, for a URL that parses
client_call(s3_url) ==
    LET p == parse_s3_url(s3_url)
    IN IF is_bucket_check(p.key)
       THEN [op |-> "get_bucket_location", Bucket |-> p.bucket, Key |-> <<>>]
       ELSE [op |-> "head_object", Bucket |-> p.bucket, Key |-> p.key]

\* check_s3_url_access, given what its client call (if it gets to one) ends with
check_s3_url_access(s3_url, r) ==
    LET p == parse_s3_url(s3_url)
    IN IF p.raised = "ValueError" THEN invalid_outcome(s3_url)
       ELSE IF p.raised = "AttributeError"
       THEN error_outcome(s3_url, "'NoneType' object has no attribute 'startswith'")
       ELSE LET c == IF is_bucket_check(p.key) THEN check_bucket_access(r)
                     ELSE check_object_access(r)
            IN IF c.raised # "" THEN error_outcome(s3_url, c.raised)
               ELSE Outcome(s3_url, p.bucket, p.key, c.accessible, c.message,
                            IF is_bucket_check(p.key) THEN "bucket" ELSE "object")

-----------------------------------------------------------------------------
(* load_urls_from_file *)

\* the records of the lines that are neither empty nor comments, with their line numbers
RECURSIVE load_from(_, _)
load_from(ls, line_num) ==
    IF ls = <<>> THEN <<>>
    ELSE LET original == strip(Head(ls))
             rest == load_from(Tail(ls), line_num + 1)
         IN IF original # <<>> /\ ~startswith(original, <<"#">>)
            THEN <<[original |-> original,
                    s3_url |-> convert_domain_to_s3_url(original),
                    line_num |-> line_num]>> \o rest
            ELSE rest

load_urls_from_file(ls) == load_from(ls, 1)

-----------------------------------------------------------------------------
(* The input files the model draws from *)

\* the pieces input lines are built of: the prefixes and markers
\* convert_domain_to_s3_url looks for, and the characters around them
Fragments ==
    {HTTPS, HTTP, S3SCHEME, S3DOT, S3DASH, DOTS3DOT, DOTS3DASH, AWS, SLASH,
     <<".">>, <<"b">>, <<" ">>, <<"#">>}

\* every concatenation of at most n fragments
RECURSIVE Concats(_)
Concats(n) ==
    IF n = 0 THEN {<<>>}
    ELSE LET shorter == Concats(n - 1)
         IN shorter \cup {s \o f : s \in shorter, f \in Fragments}

\* the lines of the batches: a bucket, an object, a service host without a bucket
\* (converted to None), a comment, a bare scheme and a path without a bucket
SampleLines == {<<"b">>, <<"b", "/", "k">>, S3DOT, <<"#">>, HTTPS, <<"/", "k">>}

\* the lines of the batches whose scheduling is followed: a bucket, an object and a
\* line whose task ends without a client call
PoolLines == {<<"b">>, <<"b", "/", "k">>, S3DOT}

\* every file of at most n lines drawn from ls
RECURSIVE Files(_, _)
Files(ls, n) ==
    IF n = 0 THEN {<<>>}
    ELSE LET shorter == Files(ls, n - 1)
         IN shorter \cup {Append(f, l) : f \in shorter, l \in ls}

-----------------------------------------------------------------------------
(* The state machine: main, check_multiple_urls and the pool's tasks *)

NoResponse == [kind |-> "none", code |-> ""]
NoOutcome == Outcome(<<>>, <<>>, <<>>, FALSE, Msg("", <<>>), "none")

\* a future as executor.submit returns it; answer records what its client call ended with
NewFuture == [state |-> "pending", result |-> NoOutcome, answer |-> NoResponse]

Tasks == 1..Len(futures)
Running == {i \in Tasks : futures[i].state = "running"}
Pending == {i \in Tasks : futures[i].state = "pending"}
Finished == {i \in Tasks : futures[i].state = "finished"}

\* mutant: a pool that starts a thread for every task
worker_always_available == TRUE

\* ThreadPoolExecutor(max_workers=max_workers): a thread is free to take a task
worker_available == Cardinality(Running) < max_workers

\* as_completed has yielded every future: the for loop ends, the with block is left
all_collected == collected = 1..Len(s3_urls)

\* main's loop over enumerate(results): row i takes url_data[i]['original']
results_with_original(rs, data) ==
    [i \in 1..Len(rs) |->
        [original_domain |-> data[i].original, url |-> rs[i].url, bucket |-> rs[i].bucket,
         key |-> rs[i].key, accessible |-> rs[i].accessible, message |-> rs[i].message,
         type |-> rs[i].type]]

TypeInit ==
    /\ pc = "load"
    /\ url_data = <<>>
    /\ s3_urls = <<>>
    /\ futures = <<>>
    /\ calls = <<>>
    /\ results = <<>>
    /\ collected = {}
    /\ report = <<>>

\* a batch: a file of several lines, a pool of one or more workers
Init ==
    /\ lines \in Files(SampleLines, MaxLines)
    /\ max_workers \in 1..MaxWorkers
    /\ TypeInit

\* the batches whose scheduling is followed to their end
PoolInit ==
    /\ lines \in Files(PoolLines, MaxLines)
    /\ max_workers \in 1..MaxWorkers
    /\ TypeInit

\* one line of any text, one worker
NormInit ==
    /\ lines \in {<<l>> : l \in Concats(MaxFrags)}
    /\ max_workers = 1
    /\ TypeInit

\* main up to the call of check_multiple_urls: load the file, return when it holds
\* no domain, else extract the URLs
Load ==
    /\ pc = "load"
    /\ url_data' = load_urls_from_file(lines)
    /\ s3_urls' = [i \in 1..Len(url_data') |-> url_data'[i].s3_url]
    /\ pc' = IF url_data' = <<>> THEN "done" ELSE "submit"
    /\ UNCHANGED <<lines, max_workers, futures, calls, results, collected, report>>

\* executor.submit of the next URL; after the last one as_completed starts
Submit ==
    /\ pc = "submit"
    /\ futures' = Append(futures, NewFuture)
    /\ calls' = Append(calls, <<>>)
    /\ pc' = IF Len(futures') = Len(s3_urls) THEN "collect" ELSE "submit"
    /\ UNCHANGED <<lines, max_workers, url_data, s3_urls, results, collected, report>>

\* a free worker thread takes the oldest queued task and runs check_s3_url_access up
\* to its client call; a URL that does not parse ends the task at once
Run(i) ==
    /\ i \in Pending
    /\ \A j \in Pending : i <= j
    /\ worker_available
    /\ IF parse_s3_url(s3_urls[i]).raised # ""
       THEN /\ futures' = [futures EXCEPT ![i].state = "finished",
                                          ![i].result = check_s3_url_access(s3_urls[i], NoResponse)]
            /\ calls' = calls
       ELSE /\ futures' = [futures EXCEPT ![i].state = "running"]
            /\ calls' = [calls EXCEPT ![i] = Append(@, client_call(s3_urls[i]))]
    /\ UNCHANGED <<lines, max_workers, pc, url_data, s3_urls, results, collected, report>>

\* the client call of task i ends with r; check_s3_url_access returns its dictionary
ClientReturn(i, r) ==
    /\ i \in Running
    /\ futures' = [futures EXCEPT ![i].state = "finished",
                                  ![i].answer = r,
                                  ![i].result = check_s3_url_access(s3_urls[i], r)]
    /\ UNCHANGED <<lines, max_workers, pc, url_data, s3_urls, calls, results, collected, report>>

\* as_completed yields a finished future; its result is appended. An exception of the
\* task would leave check_multiple_urls here and end main in its except clause
Collect(i) ==
    /\ pc = "collect"
    /\ i \in Finished \ collected
    /\ IF futures[i].result.type = "raise"
       THEN /\ pc' = "failed"
            /\ UNCHANGED <<results, collected>>
       ELSE /\ results' = Append(results, futures[i].result)
            /\ collected' = collected \cup {i}
            /\ pc' = pc
    /\ UNCHANGED <<lines, max_workers, url_data, s3_urls, futures, calls, report>>

\* check_multiple_urls returns; main pairs the results with the loaded lines
Join ==
    /\ pc = "collect"
    /\ all_collected
    /\ report' = results_with_original(results, url_data)
    /\ pc' = "done"
    /\ UNCHANGED <<lines, max_workers, url_data, s3_urls, futures, calls, results, collected>>

Next ==
    \/ Load
    \/ Submit
    \/ \E i \in Tasks : Run(i)
    \/ \E i \in Tasks, r \in Responses : ClientReturn(i, r)
    \/ \E i \in Tasks : Collect(i)
    \/ Join

Spec == Init /\ [][Next]_vars

NormSpec == NormInit /\ [][Next]_vars

\* the pool's threads run, every client call returns, main's loop goes on
FairSpec == PoolInit /\ [][Next]_vars /\ WF_vars(Next)

-----------------------------------------------------------------------------
(* The claims *)

\* the probe outcome a report row carries
RowOutcome(row) ==
    Outcome(row.url, row.bucket, row.key, row.accessible, row.message, row.type)

\* the line as convert_domain_to_s3_url sees it after trimming and protocol removal
Stripped(raw) == remove_protocol(strip(raw))

\* C1: when main has built its report, row k carries the original text of the k-th
\* loaded line (ascending line order) together with the outcome of the probe of
\* that line's own URL, whatever the order the probes completed in.
C1_RowsJoinedByInputLine ==
    pc = "done" /\ url_data # <<>> =>
        /\ Len(report) = Len(url_data)
        /\ \A k \in 1..Len(report) :
              /\ report[k].original_domain = url_data[k].original
              /\ RowOutcome(report[k]) = futures[k].result
        /\ \A k \in 1..(Len(url_data) - 1) : url_data[k].line_num < url_data[k + 1].line_num

\* C2: no exception leaves the batch, and when check_multiple_urls has returned its
\* results are exactly the futures' outcomes, one per submitted URL, each for its own
\* URL; a task whose client call raised a non-client exception has a not-accessible
\* outcome carrying the exception's message, and one whose URL does not parse has a
\* not-accessible outcome too.
C2_OneOutcomePerAddress ==
    /\ pc # "failed"
    /\ pc = "done" /\ s3_urls # <<>> =>
          /\ Len(results) = Len(s3_urls)
          /\ \E p \in Permutations(1..Len(s3_urls)) :
                \A k \in 1..Len(results) : results[k] = futures[p[k]].result
          /\ \A i \in 1..Len(s3_urls) :
                /\ futures[i].result.url = s3_urls[i]
                /\ futures[i].result.type \in {"bucket", "object", "invalid", "error"}
                /\ futures[i].answer.kind = "Exception" =>
                      /\ ~futures[i].result.accessible
                      /\ futures[i].result.message =
                            Msg("Unexpected error: ", <<futures[i].answer.code>>)
                /\ parse_s3_url(s3_urls[i]).raised # "" => ~futures[i].result.accessible

\* a batch of two has returned in which one task's client call raised a non-client
\* exception and the other task found its address accessible
C2_Witness ==
    /\ pc = "done"
    /\ Len(s3_urls) = 2
    /\ \E i, j \in 1..2 :
          /\ futures[i].answer.kind = "Exception"
          /\ futures[j].result.accessible

\* C3: a line that is only a scheme prefix (nothing is left after trimming and
\* protocol removal) gets no client call, and its outcome is the invalid one.
C3_SchemeOnlyIsMalformed ==
    \A i \in Tasks :
        Stripped(url_data[i].original) = <<>> =>
            /\ calls[i] = <<>>
            /\ i \in Finished => futures[i].result.type = "invalid"

\* the bucket and key the claim's rules give for a virtual-hosted input
VirtualHostedAddress(d) ==
    LET parts == split(d, SLASH, 1)
        host == parts[1]
        marker == IF contains(host, DOTS3DOT) THEN DOTS3DOT ELSE DOTS3DASH
    IN [bucket |-> SubSeq(host, 1, find(host, marker) - 1),
        key |-> IF Len(parts) > 1 THEN parts[2] ELSE <<>>]

\* the bucket and key the claim's rules give for a path-style input with a "/"
PathStyleAddress(d) ==
    LET parts == split(d, SLASH, 2)
    IN [bucket |-> parts[2], key |-> IF Len(parts) > 2 THEN parts[3] ELSE <<>>]

HostOf(d) == split(d, SLASH, 1)[1]
HostIsVirtual(d) == contains(HostOf(d), DOTS3DOT) \/ contains(HostOf(d), DOTS3DASH)
HostIsPathStyle(d) ==
    /\ ~HostIsVirtual(d)
    /\ startswith(HostOf(d), S3DOT) \/ startswith(HostOf(d), S3DASH)
    /\ contains(d, SLASH)

AddressOf(s3_url) == [bucket |-> parse_s3_url(s3_url).bucket, key |-> parse_s3_url(s3_url).key]

\* C4: a line whose host segment holds .s3. or .s3- is converted as virtual-hosted
\* (bucket = the host before the marker, key = what follows the first "/"), and a line
\* whose host holds no marker and starts with s3. or s3- is converted as path-style
\* (bucket = the second segment, key = the rest), wherever else a marker occurs.
C4_FirstRuleByHostSegment ==
    \A i \in 1..Len(url_data) :
        LET d == Stripped(url_data[i].original)
            u == url_data[i].s3_url
        IN /\ HostIsVirtual(d) => u # None /\ AddressOf(u) = VirtualHostedAddress(d)
           /\ HostIsPathStyle(d) => u # None /\ AddressOf(u) = PathStyleAddress(d)

\* C5: converting a converted URL (one with a bucket) again gives the same bucket
\* and key.
C5_ConvertIdempotent ==
    \A i \in 1..Len(url_data) :
        LET u == url_data[i].s3_url
        IN u # None /\ AddressOf(u).bucket # <<>> =>
              /\ convert_domain_to_s3_url(u) # None
              /\ AddressOf(convert_domain_to_s3_url(u)) = AddressOf(u)

\* C6: no client call is made with a key and an empty bucket.
C6_KeyImpliesBucket ==
    \A i \in Tasks : \A k \in 1..Len(calls[i]) :
        calls[i][k].Key # <<>> => calls[i][k].Bucket # <<>>

\* C7: a finished task's outcome is accessible exactly when its client call returned
\* without an error; a URL that does not parse is not accessible; AccessDenied from the
\* bucket call gives the access-denied message. The batch's results and the report's
\* rows are such outcomes.
C7_AccessibleIffCallSucceeded ==
    /\ \A i \in Finished :
          /\ futures[i].result.accessible <=> futures[i].answer.kind = "ok"
          /\ futures[i].answer.kind = "ok" => Len(calls[i]) = 1
          /\ futures[i].result.type \in {"invalid", "error"} => ~futures[i].result.accessible
          /\ (/\ Len(calls[i]) = 1
              /\ calls[i][1].op = "get_bucket_location"
              /\ futures[i].answer = [kind |-> "ClientError", code |-> "AccessDenied"])
             => futures[i].result.message = Msg("Access denied to bucket", <<>>)
    /\ \A k \in 1..Len(results) : results[k] \in {futures[i].result : i \in Finished}
    /\ \A k \in 1..Len(report) : RowOutcome(report[k]) = results[k]

\* a bucket's check was answered AccessDenied while another task's call succeeded
C7_Witness ==
    /\ pc = "done"
    /\ \E i, j \in Tasks :
          /\ calls[i] # <<>>
          /\ calls[i][1].op = "get_bucket_location"
          /\ futures[i].answer.code = "AccessDenied"
          /\ futures[j].result.accessible

\* C8: a task issues at most one client call, whatever the call ended with; once it
\* has started, it has issued get_bucket_location for its bucket when its URL has no
\* key, head_object for its bucket and key when it has one, and none when its URL does
\* not parse.
C8_OneCallPerAddress ==
    \A i \in Tasks :
        LET p == parse_s3_url(s3_urls[i])
        IN /\ Len(calls[i]) <= 1
           /\ i \in Pending => calls[i] = <<>>
           /\ i \notin Pending =>
                 IF p.raised # "" THEN calls[i] = <<>>
                 ELSE IF p.key = <<>>
                 THEN calls[i] = <<[op |-> "get_bucket_location", Bucket |-> p.bucket,
                                    Key |-> <<>>]>>
                 ELSE calls[i] = <<[op |-> "head_object", Bucket |-> p.bucket, Key |-> p.key]>>

\* a batch has returned in which an object's check failed with a client error and a
\* bucket's check raised
C8_Witness ==
    /\ pc = "done"
    /\ \E i, j \in Tasks :
          /\ calls[i] # <<>> /\ calls[i][1].op = "head_object"
          /\ futures[i].answer.kind = "ClientError"
          /\ calls[j] # <<>> /\ calls[j][1].op = "get_bucket_location"
          /\ futures[j].answer.kind = "Exception"

\* C9: never more than max_workers tasks are running; main has left
\* check_multiple_urls only with every task finished and collected; eventually main
\* has ended with a task submitted, finished and collected for every loaded line.
C9_BoundedPoolRunsToCompletion ==
    /\ [](Cardinality(Running) <= max_workers)
    /\ [](pc = "done" /\ s3_urls # <<>> =>
            /\ Len(futures) = Len(s3_urls)
            /\ Finished = 1..Len(s3_urls)
            /\ collected = 1..Len(s3_urls))
    /\ <>(/\ pc = "done"
          /\ Len(futures) = Len(url_data)
          /\ Finished = 1..Len(url_data)
          /\ collected = 1..Len(url_data))

\* the pool is full while a task still waits in the queue
C9_Witness ==
    /\ Cardinality(Running) = max_workers
    /\ Pending # {}

\* C10: every loaded record carries a string that starts with s3://.
C10_ConvertTotal ==
    \A i \in 1..Len(url_data) :
        /\ url_data[i].s3_url # None
        /\ startswith(url_data[i].s3_url, S3SCHEME)

====
